---- MODULE Spec2Model ----
(***************************************************************************)
(* Model of the fapi diagnostic HTTP service (src/main.py, src/util.py).   *)
(*                                                                         *)
(* A Python str is a sequence of Unicode code points, a bytes object a     *)
(* sequence of numbers in 0..255.  The conversions the handlers call       *)
(* (str.encode('utf-8'), bytes.decode('utf-8'), base64.b64encode,          *)
(* base64.b64decode with and without validate=True, str.format) are        *)
(* computed as CPython 3.11 computes them.                                 *)
(***************************************************************************)
EXTENDS Integers, Sequences, FiniteSets, TLC

VARIABLES inflight, response, sent, origin

vars == <<inflight, response, sent, origin>>

(***************************************************************************)
(* Bounds of the model.                                                    *)
(***************************************************************************)
\* longest query string value a request carries
MaxLen == 5
\* largest |sec| a /sleep request carries
MaxSec == 12
\* number of requests that can be in flight at once
NSlots == 2

(***************************************************************************)
(* Code points the query strings are built from:                           *)
(*   'Q' (81) and '/' (47): base64 alphabet,                               *)
(*   '=' (61): padding, '!' (33): outside the alphabet,                    *)
(*   U+00E9 (233): outside ASCII, two bytes in UTF-8.                      *)
(***************************************************************************)
InputChars == {81, 47, 61, 33, 233}

RECURSIVE StringsUpTo(_, _)
StringsUpTo(chars, n) ==
    IF n = 0 THEN {<<>>}
    ELSE LET shorter == StringsUpTo(chars, n - 1)
         IN  shorter \cup {Append(s, c) : s \in {t \in shorter : Len(t) = n - 1}, c \in chars}

Strings == StringsUpTo(InputChars, MaxLen)

(***************************************************************************)
(* str.encode('utf-8') and bytes.decode('utf-8')                           *)
(***************************************************************************)
\* the UTF-8 bytes of one code point (a Unicode scalar value)
utf8_encode_char(cp) ==
    IF cp < 128 THEN <<cp>>
    ELSE IF cp < 2048 THEN <<192 + (cp \div 64), 128 + (cp % 64)>>
    ELSE IF cp < 65536 THEN
        <<224 + (cp \div 4096), 128 + ((cp \div 64) % 64), 128 + (cp % 64)>>
    ELSE <<240 + (cp \div 262144), 128 + ((cp \div 4096) % 64),
           128 + ((cp \div 64) % 64), 128 + (cp % 64)>>

\* str.encode('utf-8'): the bytes of the code points, in order
RECURSIVE utf8_encode(_)
utf8_encode(s) ==
    IF s = <<>> THEN <<>>
    ELSE IF Len(s) = 1 THEN utf8_encode_char(s[1])
    ELSE LET h == Len(s) \div 2
         IN  utf8_encode(SubSeq(s, 1, h)) \o utf8_encode(SubSeq(s, h + 1, Len(s)))

IsCont(b) == b >= 128 /\ b <= 191

\* bytes.decode('utf-8'), strict: [ok, text]; ok = FALSE is UnicodeDecodeError
RECURSIVE utf8_decode_from(_, _, _)
utf8_decode_from(b, i, acc) ==
    IF i > Len(b) THEN [ok |-> TRUE, text |-> acc]
    ELSE LET b0 == b[i]
             has(k) == i + k <= Len(b)
             bad == [ok |-> FALSE, text |-> <<>>]
         IN  IF b0 < 128 THEN utf8_decode_from(b, i + 1, Append(acc, b0))
             ELSE IF b0 >= 194 /\ b0 <= 223 THEN
                 IF has(1) /\ IsCont(b[i + 1])
                 THEN utf8_decode_from(b, i + 2,
                          Append(acc, (b0 - 192) * 64 + (b[i + 1] - 128)))
                 ELSE bad
             ELSE IF b0 >= 224 /\ b0 <= 239 THEN
                 IF has(2) /\ IsCont(b[i + 1]) /\ IsCont(b[i + 2])
                    /\ (b0 = 224 => b[i + 1] >= 160)
                    /\ (b0 = 237 => b[i + 1] <= 159)
                 THEN utf8_decode_from(b, i + 3,
                          Append(acc, (b0 - 224) * 4096 + (b[i + 1] - 128) * 64
                                      + (b[i + 2] - 128)))
                 ELSE bad
             ELSE IF b0 >= 240 /\ b0 <= 244 THEN
                 IF has(3) /\ IsCont(b[i + 1]) /\ IsCont(b[i + 2]) /\ IsCont(b[i + 3])
                    /\ (b0 = 240 => b[i + 1] >= 144)
                    /\ (b0 = 244 => b[i + 1] <= 143)
                 THEN utf8_decode_from(b, i + 4,
                          Append(acc, (b0 - 240) * 262144 + (b[i + 1] - 128) * 4096
                                      + (b[i + 2] - 128) * 64 + (b[i + 3] - 128)))
                 ELSE bad
             ELSE bad

utf8_decode(b) == utf8_decode_from(b, 1, <<>>)

(***************************************************************************)
(* base64.b64encode: binascii.b2a_base64 without the newline               *)
(***************************************************************************)
\* table_b2a_base64: the character of a 6-bit value
table_b2a_base64(v) ==
    IF v < 26 THEN 65 + v
    ELSE IF v < 52 THEN 97 + (v - 26)
    ELSE IF v < 62 THEN 48 + (v - 52)
    ELSE IF v = 62 THEN 43 ELSE 47

RECURSIVE b64encode_from(_, _)
b64encode_from(b, i) ==
    LET n == Len(b) - i + 1
    IN  IF n <= 0 THEN <<>>
        ELSE IF n = 1 THEN
            <<table_b2a_base64(b[i] \div 4), table_b2a_base64((b[i] % 4) * 16), 61, 61>>
        ELSE IF n = 2 THEN
            <<table_b2a_base64(b[i] \div 4),
              table_b2a_base64((b[i] % 4) * 16 + (b[i + 1] \div 16)),
              table_b2a_base64((b[i + 1] % 16) * 4), 61>>
        ELSE
            <<table_b2a_base64(b[i] \div 4),
              table_b2a_base64((b[i] % 4) * 16 + (b[i + 1] \div 16)),
              table_b2a_base64((b[i + 1] % 16) * 4 + (b[i + 2] \div 64)),
              table_b2a_base64(b[i + 2] % 64)>> \o b64encode_from(b, i + 3)

\* faulty variant of b64encode: the padding is left out
b64encode_nopad(b) == SelectSeq(b64encode_from(b, 1), LAMBDA c : c # 61)

b64encode(b) == b64encode_from(b, 1)

(***************************************************************************)
(* base64.b64decode: binascii.a2b_base64(s, strict_mode=validate)          *)
(***************************************************************************)
\* table_a2b_base64: the 6-bit value of a byte, 64 for a byte outside the alphabet
table_a2b_base64(c) ==
    IF c >= 65 /\ c <= 90 THEN c - 65
    ELSE IF c >= 97 /\ c <= 122 THEN c - 71
    ELSE IF c >= 48 /\ c <= 57 THEN c + 4
    ELSE IF c = 43 THEN 62
    ELSE IF c = 47 THEN 63
    ELSE 64

IsPad(c) == c = 61

\* binascii.Error
a2b_error == [ok |-> FALSE, bin |-> <<>>]

\* the loop over the input bytes; st holds the C function's locals
RECURSIVE a2b_loop(_, _, _, _)
a2b_loop(data, i, st, strict_mode) ==
    IF i > Len(data) THEN
        IF st.quad_pos # 0 THEN a2b_error ELSE [ok |-> TRUE, bin |-> st.bin]
    ELSE IF IsPad(data[i]) THEN
        IF st.quad_pos >= 2 /\ st.quad_pos + st.pads + 1 >= 4 THEN
            \* a complete pad sequence ends the parse
            IF strict_mode /\ i < Len(data) THEN a2b_error
            ELSE [ok |-> TRUE, bin |-> st.bin]
        ELSE a2b_loop(data, i + 1,
                 [st EXCEPT !.padding_started = TRUE,
                            !.pads = IF st.quad_pos >= 2 THEN st.pads + 1 ELSE st.pads],
                 strict_mode)
    ELSE LET this_ch == table_a2b_base64(data[i])
         IN  IF this_ch >= 64 THEN
                 IF strict_mode THEN a2b_error ELSE a2b_loop(data, i + 1, st, strict_mode)
             ELSE IF strict_mode /\ st.padding_started THEN a2b_error
             ELSE a2b_loop(data, i + 1,
                    CASE st.quad_pos = 0 ->
                           [st EXCEPT !.pads = 0, !.quad_pos = 1, !.leftchar = this_ch]
                      [] st.quad_pos = 1 ->
                           [st EXCEPT !.pads = 0, !.quad_pos = 2,
                                      !.leftchar = this_ch % 16,
                                      !.bin = Append(st.bin, st.leftchar * 4 + (this_ch \div 16))]
                      [] st.quad_pos = 2 ->
                           [st EXCEPT !.pads = 0, !.quad_pos = 3,
                                      !.leftchar = this_ch % 4,
                                      !.bin = Append(st.bin, st.leftchar * 16 + (this_ch \div 4))]
                      [] st.quad_pos = 3 ->
                           [st EXCEPT !.pads = 0, !.quad_pos = 0,
                                      !.leftchar = 0,
                                      !.bin = Append(st.bin, st.leftchar * 64 + this_ch)],
                    strict_mode)

a2b_base64(data, strict_mode) ==
    IF strict_mode /\ Len(data) > 0 /\ IsPad(data[1]) THEN a2b_error
    ELSE a2b_loop(data, 1,
             [quad_pos |-> 0, leftchar |-> 0, pads |-> 0,
              padding_started |-> FALSE, bin |-> <<>>],
             strict_mode)

\* base64.b64decode(s: bytes, validate)
b64decode(s, validate) == a2b_base64(s, validate)

(***************************************************************************)
(* urllib.parse.quote as starlette's RedirectResponse applies it to the    *)
(* Location header: unreserved characters and the safe set are kept, every *)
(* other character becomes %XX for each of its UTF-8 bytes.                *)
(***************************************************************************)
\* letters, digits, "_.-~" and the safe set ":/%#?=@[]!$&'()*+,;"
quote_safe(c) ==
    \/ c >= 65 /\ c <= 90
    \/ c >= 97 /\ c <= 122
    \/ c >= 48 /\ c <= 57
    \/ c \in {95, 46, 45, 126}
    \/ c \in {58, 47, 37, 35, 63, 61, 64, 91, 93, 33, 36, 38, 39, 40, 41, 42, 43, 44, 59}

hex_digit(v) == IF v < 10 THEN 48 + v ELSE 65 + (v - 10)

RECURSIVE quote_bytes(_)
quote_bytes(b) ==
    IF b = <<>> THEN <<>>
    ELSE (IF quote_safe(Head(b)) THEN <<Head(b)>>
          ELSE <<37, hex_digit(Head(b) \div 16), hex_digit(Head(b) % 16)>>)
         \o quote_bytes(Tail(b))

quote(s) == quote_bytes(utf8_encode(s))

(***************************************************************************)
(* str(int) and str.format                                                 *)
(***************************************************************************)
RECURSIVE digits(_)
digits(n) == IF n < 10 THEN <<48 + n>> ELSE digits(n \div 10) \o <<48 + (n % 10)>>

\* str(n) for an int n
int_str(n) == IF n < 0 THEN <<45>> \o digits(-n) ELSE digits(n)

\* index of the first '{' or '}' at or after i, 0 if none
next_brace(tpl, i) ==
    LET at == {j \in i..Len(tpl) : tpl[j] \in {123, 125}}
    IN  IF at = {} THEN 0 ELSE CHOOSE j \in at : \A k \in at : j <= k

\* index of the first '}' at or after i, 0 if none
close_brace(tpl, i) ==
    LET at == {j \in i..Len(tpl) : tpl[j] = 125}
    IN  IF at = {} THEN 0 ELSE CHOOSE j \in at : \A k \in at : j <= k

\* the template from index i on, split into literal text and replacement fields,
\* "{{" and "}}" unescaped; text is the literal text read since the last field
RECURSIVE parse_format(_, _, _, _)
parse_format(tpl, i, text, pieces) ==
    LET b == next_brace(tpl, i)
    IN  IF b = 0
        THEN Append(pieces, [field |-> FALSE, text |-> text \o SubSeq(tpl, i, Len(tpl))])
        ELSE LET upto == text \o SubSeq(tpl, i, b - 1)
             IN  IF tpl[b] = 123 /\ (b = Len(tpl) \/ tpl[b + 1] # 123)
                 THEN LET j == close_brace(tpl, b + 1)
                      IN  parse_format(tpl, j + 1, <<>>,
                              pieces \o <<[field |-> FALSE, text |-> upto],
                                          [field |-> TRUE, text |-> SubSeq(tpl, b + 1, j - 1)]>>)
                 \* "{{" or "}}" (a single '}' is a ValueError; the templates hold none)
                 ELSE parse_format(tpl, b + 2, Append(upto, tpl[b]), pieces)

RECURSIVE join_pieces(_, _, _)
join_pieces(pieces, name, value) ==
    IF pieces = <<>> THEN <<>>
    ELSE (IF Head(pieces).field /\ Head(pieces).text = name THEN value
          ELSE Head(pieces).text)
         \o join_pieces(Tail(pieces), name, value)

(***************************************************************************)
(* Literals of src/main.py                                                 *)
(***************************************************************************)
HelloWorld == <<72, 101, 108, 108, 111, 32, 87, 111, 114, 108, 100>>
OK == <<79, 75>>
InvalidBase64Data == <<73, 110, 118, 97, 108, 105, 100, 32, 66, 97, 115, 101, 54, 52, 32, 100, 97, 116, 97>>
default_redirect_url == <<104, 116, 116, 112, 115, 58, 47, 47, 119, 119, 119, 46, 103, 111, 111, 103, 108, 101, 46, 99, 111, 109>>
default_document_url == <<104, 116, 116, 112, 58, 47, 47, 108, 111, 99, 97, 108, 104, 111, 115, 116>>
field_sec == <<115, 101, 99>>
field_url == <<117, 114, 108>>

\* the body template of /sleep
sleep_template == <<
    10,60,33,68,79,67,84,89,80,69,32,104,116,109,108,62,10,60,104,101,97,100,62,10,60,47,104,
    101,97,100,62,10,60,98,111,100,121,62,10,32,32,60,115,99,114,105,112,116,62,10,32,32,32,32,
    99,111,110,115,111,108,101,46,108,111,103,40,34,98,101,102,111,114,101,34,41,59,10,32,32,32,
    32,115,101,116,84,105,109,101,111,117,116,40,40,41,32,61,62,32,99,111,110,115,111,108,101,
    46,108,111,103,40,34,97,102,116,101,114,34,41,44,32,123,115,101,99,125,48,48,48,41,59,10,32,
    32,60,47,115,99,114,105,112,116,62,10,60,47,98,111,100,121,62,10,60,47,104,116,109,108,62,
    10,32,32,32,32 >>

\* the body template of /document/write
document_write_template == <<
    10,60,33,68,79,67,84,89,80,69,32,104,116,109,108,62,10,60,104,101,97,100,62,10,60,47,104,
    101,97,100,62,10,60,98,111,100,121,62,10,32,32,60,115,99,114,105,112,116,62,10,32,32,32,32,
    118,97,114,32,116,32,61,32,110,101,119,32,88,77,76,72,116,116,112,82,101,113,117,101,115,
    116,59,10,32,32,32,32,116,46,111,110,108,111,97,100,32,61,32,102,117,110,99,116,105,111,110,
    32,40,41,32,123,123,10,32,32,32,32,32,32,116,46,115,116,97,116,117,115,32,62,61,32,50,48,48,
    32,38,38,32,116,46,115,116,97,116,117,115,32,60,32,51,48,48,32,63,32,100,111,99,117,109,101,
    110,116,46,119,114,105,116,101,40,116,46,114,101,115,112,111,110,115,101,84,101,120,116,41,
    32,58,32,99,111,110,115,111,108,101,46,101,114,114,111,114,40,34,82,101,113,117,101,115,116,
    32,102,97,105,108,101,100,32,119,105,116,104,32,115,116,97,116,117,115,58,32,34,32,43,32,
    116,46,115,116,97,116,117,115,41,10,32,32,32,32,125,125,59,10,32,32,32,32,116,46,111,112,
    101,110,40,34,71,69,84,34,44,32,34,123,117,114,108,125,34,41,59,10,32,32,32,32,116,46,115,
    101,110,100,40,41,59,10,32,32,60,47,115,99,114,105,112,116,62,10,60,47,98,111,100,121,62,10,
    60,47,104,116,109,108,62,10,32,32,32,32 >>

sleep_pieces == parse_format(sleep_template, 1, <<>>, <<>>)
document_write_pieces == parse_format(document_write_template, 1, <<>>, <<>>)

(***************************************************************************)
(* Responses                                                               *)
(***************************************************************************)
NoResponse ==
    [kind |-> "none", status |-> 0, body |-> <<>>, location |-> <<>>, json |-> <<>>]

\* HTMLResponse(content=..., status_code=200): the body is content.encode('utf-8')
HTMLResponse(content) ==
    [kind |-> "html", status |-> 200, body |-> utf8_encode(content),
     location |-> <<>>, json |-> <<>>]

\* JSONResponse(content=...) and a returned dict: status 200
JSONResponse(content) ==
    [kind |-> "json", status |-> 200, body |-> <<>>, location |-> <<>>, json |-> content]

\* RedirectResponse(url): starlette's default status code, quoted Location
RedirectResponse(url) ==
    [kind |-> "redirect", status |-> 307, body |-> <<>>,
     location |-> quote(url), json |-> <<>>]

\* raise HTTPException(status_code, detail): rendered as {"detail": detail}
HTTPException(status_code, detail) ==
    [kind |-> "json", status |-> status_code, body |-> <<>>, location |-> <<>>,
     json |-> <<[key |-> "detail", value |-> detail]>>]

\* an exception no handler catches: the server answers 500
UnhandledException ==
    [kind |-> "server_error", status |-> 500, body |-> <<>>, location |-> <<>>,
     json |-> <<>>]

(***************************************************************************)
(* src/util.py                                                             *)
(***************************************************************************)
is_base64_encoded(input_string) ==
    IF input_string = <<>> THEN FALSE
    ELSE b64decode(utf8_encode(input_string), TRUE).ok

(***************************************************************************)
(* src/main.py: the handlers, each from its query parameter to a response  *)
(***************************************************************************)
\* base64.b64decode(s: str): the str is encoded as ASCII first (ValueError if it
\* cannot be), then decoded without validation
b64decode_str(s) ==
    IF \E i \in 1..Len(s) : s[i] >= 128 THEN a2b_error ELSE b64decode(s, FALSE)

\* lines 57-59 and 115-117: [ok, text]; ok = FALSE is an exception raised there
decode_if_encoded(value) ==
    IF is_base64_encoded(value) THEN
        LET decoded_bytes == b64decode_str(value)
        IN  IF decoded_bytes.ok THEN utf8_decode(decoded_bytes.bin)
            ELSE [ok |-> FALSE, text |-> <<>>]
    ELSE [ok |-> TRUE, text |-> value]

root == JSONResponse(<<[key |-> "message", value |-> HelloWorld]>>)

log == JSONResponse(<<[key |-> "message", value |-> OK]>>)

\* faulty variant of redirector: the url is never decoded
redirector_verbatim(url) == RedirectResponse(url)

redirector(url) ==
    LET resolved == decode_if_encoded(url)
    IN  IF resolved.ok THEN RedirectResponse(resolved.text) ELSE UnhandledException

\* faulty variant of sleep_clamp: the cap keeps the sign
sleep_clamp_signed(sec) == IF sec > 10 THEN 10 ELSE IF sec < -10 THEN -10 ELSE sec

\* lines 84-85
sleep_clamp(sec) == IF (IF sec < 0 THEN -sec ELSE sec) > 10 THEN 10 ELSE sec

sleep(sec) ==
    HTMLResponse(join_pieces(sleep_pieces, field_sec, int_str(sleep_clamp(sec))))

html_renderer(content) ==
    LET resolved == decode_if_encoded(content)
    IN  IF resolved.ok THEN HTMLResponse(resolved.text) ELSE UnhandledException

encode_data(data) ==
    LET encoded_bytes == b64encode(utf8_encode(data))
        encoded_data == utf8_decode(encoded_bytes)
    IN  IF encoded_data.ok
        THEN JSONResponse(<<[key |-> "original", value |-> data],
                            [key |-> "encoded", value |-> encoded_data.text]>>)
        ELSE UnhandledException

\* faulty variant of decode_data: data is checked by the validator first
decode_data_validated(data) ==
    LET decoded_data == utf8_decode(b64decode(utf8_encode(data), FALSE).bin)
    IN  IF is_base64_encoded(data) /\ decoded_data.ok
        THEN JSONResponse(<<[key |-> "original_b64", value |-> data],
                            [key |-> "decoded", value |-> decoded_data.text]>>)
        ELSE HTTPException(400, InvalidBase64Data)

decode_data(data) ==
    LET decoded_bytes == b64decode(utf8_encode(data), FALSE)
        decoded_data == IF decoded_bytes.ok THEN utf8_decode(decoded_bytes.bin)
                        ELSE [ok |-> FALSE, text |-> <<>>]
    IN  IF decoded_data.ok
        THEN JSONResponse(<<[key |-> "original_b64", value |-> data],
                            [key |-> "decoded", value |-> decoded_data.text]>>)
        ELSE HTTPException(400, InvalidBase64Data)

\* faulty variant of document_write: the url is resolved as /redirect resolves it
document_write_decoding(url) ==
    HTMLResponse(join_pieces(document_write_pieces, field_url,
                             IF decode_if_encoded(url).ok THEN decode_if_encoded(url).text
                             ELSE url))

document_write(url) ==
    HTMLResponse(join_pieces(document_write_pieces, field_url, url))

(***************************************************************************)
(* Requests.  A request names its route and carries its query parameter:   *)
(* given = FALSE is a request without the parameter (the default applies). *)
(***************************************************************************)
NoRequest == [route |-> "none", given |-> FALSE, str |-> <<>>, sec |-> 0]

StringRoutes == {"/redirect", "/html", "/encode", "/decode", "/document/write"}

StringRequests(strings) ==
    [route : StringRoutes, given : {TRUE}, str : strings, sec : {0}]

DefaultRequests ==
    [route : {"/", "/log", "/redirect", "/sleep", "/document/write"},
     given : {FALSE}, str : {<<>>}, sec : {0}]

SleepRequests(secs) == [route : {"/sleep"}, given : {TRUE}, str : {<<>>}, sec : secs]

Requests ==
    StringRequests(Strings) \cup DefaultRequests \cup SleepRequests(-MaxSec..MaxSec)

\* the requests of the concurrent specification: the empty string, "QQ==" (valid,
\* the text "A"), "//==" (valid, the byte 0xFF), "Q!Q==" and "Q!" (not base64)
ConcQueries ==
    {<<"/html", <<>>>>, <<"/html", <<81, 81, 61, 61>>>>, <<"/html", <<47, 47, 61, 61>>>>,
     <<"/decode", <<>>>>, <<"/decode", <<81, 33, 81, 61, 61>>>>,
     <<"/redirect", <<81, 81, 61, 61>>>>, <<"/encode", <<81, 33>>>>,
     <<"/document/write", <<81, 81, 61, 61>>>>}

ConcRequests ==
    {[route |-> q[1], given |-> TRUE, str |-> q[2], sec |-> 0] : q \in ConcQueries}
        \cup DefaultRequests \cup SleepRequests({-5, 15})

Slots == 1..NSlots

\* origin[s]: the text whose /encode answer the request in slot s carries as data
NoOrigin == [set |-> FALSE, text |-> <<>>]

\* faulty variant of param_str: the parameter is read from one place all requests share
param_str_shared(s, default) == IF inflight[1].given THEN inflight[1].str ELSE default

\* the query parameters the framework hands to the handler of the request in slot s
param_str(s, default) == IF inflight[s].given THEN inflight[s].str ELSE default

param_sec(s) == IF inflight[s].given THEN inflight[s].sec ELSE 10

(***************************************************************************)
(* The state machine: a request is received into a free slot, its handler  *)
(* runs to completion (no handler awaits), the response is written out.    *)
(***************************************************************************)
Init ==
    /\ inflight = [s \in Slots |-> NoRequest]
    /\ response = [s \in Slots |-> NoResponse]
    /\ sent = [s \in Slots |-> 0]
    /\ origin = [s \in Slots |-> NoOrigin]

\* a request out of `requests` arrives and is dispatched into the free slot s
Receive(s, requests) ==
    /\ inflight[s] = NoRequest
    /\ \E req \in requests : inflight' = [inflight EXCEPT ![s] = req]
    /\ UNCHANGED <<response, sent, origin>>

\* the handler of `route` answers the request in slot s with `resp`
Answer(s, route, resp) ==
    /\ inflight[s].route = route
    /\ response[s] = NoResponse
    /\ response' = [response EXCEPT ![s] = resp]
    /\ sent' = [sent EXCEPT ![s] = sent[s] + 1]
    /\ UNCHANGED <<inflight, origin>>

Root(s) == Answer(s, "/", root)

Log(s) == Answer(s, "/log", log)

Redirector(s) == Answer(s, "/redirect", redirector(param_str(s, default_redirect_url)))

Sleep(s) == Answer(s, "/sleep", sleep(param_sec(s)))

HtmlRenderer(s) == Answer(s, "/html", html_renderer(param_str(s, <<>>)))

EncodeData(s) == Answer(s, "/encode", encode_data(param_str(s, <<>>)))

DecodeData(s) == Answer(s, "/decode", decode_data(param_str(s, <<>>)))

DocumentWrite(s) ==
    Answer(s, "/document/write", document_write(param_str(s, default_document_url)))

\* the response has been written: the slot is free again
Complete(s) ==
    /\ response[s] # NoResponse
    /\ inflight' = [inflight EXCEPT ![s] = NoRequest]
    /\ response' = [response EXCEPT ![s] = NoResponse]
    /\ sent' = [sent EXCEPT ![s] = 0]
    /\ origin' = [origin EXCEPT ![s] = NoOrigin]

\* the client of slot s reads the "encoded" value of the /encode answer and sends it
\* as data of GET /decode on the same connection (test_decode_valid_string);
\* origin remembers the text that was encoded
Resubmit(s) ==
    /\ inflight[s].route = "/encode"
    /\ response[s].kind = "json"
    /\ response[s].status = 200
    /\ inflight' = [inflight EXCEPT ![s] =
                       [route |-> "/decode", given |-> TRUE,
                        str |-> response[s].json[2].value, sec |-> 0]]
    /\ response' = [response EXCEPT ![s] = NoResponse]
    /\ sent' = [sent EXCEPT ![s] = 0]
    /\ origin' = [origin EXCEPT ![s] = [set |-> TRUE, text |-> inflight[s].str]]

Handle(s) ==
    \/ Root(s)
    \/ Log(s)
    \/ Redirector(s)
    \/ Sleep(s)
    \/ HtmlRenderer(s)
    \/ EncodeData(s)
    \/ DecodeData(s)
    \/ DocumentWrite(s)

\* one request at a time, over every query string up to MaxLen
Next ==
    \/ Receive(1, Requests)
    \/ Handle(1)
    \/ Resubmit(1)
    \/ Complete(1)

Spec == Init /\ [][Next]_vars

\* up to NSlots requests in flight, handled in any order
NextConc ==
    \/ \E s \in Slots : Receive(s, ConcRequests)
    \/ \E s \in Slots : Handle(s)
    \/ \E s \in Slots : Resubmit(s)
    \/ \E s \in Slots : Complete(s)

SpecConc == Init /\ [][NextConc]_vars

(***************************************************************************)
(* Vocabulary of the properties                                            *)
(***************************************************************************)
\* the handler of `route` has answered the request in slot s
Answered(s, route) == inflight[s].route = route /\ response[s] # NoResponse

\* the value of the str parameter the request in slot s is handled with
StrOf(s, default) == IF inflight[s].given THEN inflight[s].str ELSE default

\* A-Z a-z 0-9 + /
InAlphabet(c) ==
    \/ c \in 65..90
    \/ c \in 97..122
    \/ c \in 48..57
    \/ c \in {43, 47}

NumPads(v) == Cardinality({i \in 1..Len(v) : v[i] = 61})

\* the rules of spec 4.1 but for non-emptiness: alphabet plus '=', a length that is
\* a multiple of 4, and 0, 1 or 2 '=' that appear only at the end
StrictRules(v) ==
    /\ \A i \in 1..Len(v) : InAlphabet(v[i]) \/ v[i] = 61
    /\ Len(v) % 4 = 0
    /\ NumPads(v) <= 2
    /\ \A i \in 1..Len(v) : v[i] = 61 => i > Len(v) - NumPads(v)

\* the three bytes a group of four alphabet characters stands for, cut to n bytes
GroupBytes(v, k, n) ==
    LET val(i) == CHOOSE x \in 0..63 : table_b2a_base64(x) = (IF v[i] = 61 THEN 65 ELSE v[i])
        bits == val(k) * 262144 + val(k + 1) * 4096 + val(k + 2) * 64 + val(k + 3)
    IN  SubSeq(<<bits \div 65536, (bits \div 256) % 256, bits % 256>>, 1, n)

\* the bytes a string that obeys StrictRules stands for (RFC 4648)
RECURSIVE StrictBytes(_, _)
StrictBytes(v, k) ==
    IF k > Len(v) THEN <<>>
    ELSE GroupBytes(v, k, IF k + 3 = Len(v) THEN 3 - NumPads(v) ELSE 3)
         \o StrictBytes(v, k + 4)

\* the first index at or after `from` where `sub` occurs in s, 0 if nowhere
IndexOf(sub, s, from) ==
    LET at == {i \in from..(Len(s) - Len(sub) + 1) : SubSeq(s, i, i + Len(sub) - 1) = sub}
    IN  IF at = {} THEN 0 ELSE CHOOSE i \in at : \A j \in at : i <= j

\* what stands in s between the first `before` and the next `after`
Between(s, before, after) ==
    LET start == IndexOf(before, s, 1) + Len(before)
    IN  SubSeq(s, start, IndexOf(after, s, start) - 1)

\* the number a decimal numeral reads as: an optional '-' and digits
RECURSIVE ParseNat(_)
ParseNat(d) ==
    IF d = <<>> THEN 0 ELSE ParseNat(SubSeq(d, 1, Len(d) - 1)) * 10 + (d[Len(d)] - 48)

IsNumeral(d) ==
    LET ds == IF d # <<>> /\ d[1] = 45 THEN Tail(d) ELSE d
    IN  /\ ds # <<>>
        /\ \A i \in 1..Len(ds) : ds[i] \in 48..57
        /\ (Len(ds) > 1 => ds[1] # 48)

ParseInt(d) == IF d[1] = 45 THEN -ParseNat(Tail(d)) ELSE ParseNat(d)

\* the script text around the two substitutions
SleepBefore == <<115, 101, 116, 84, 105, 109, 101, 111, 117, 116, 40, 40, 41, 32, 61, 62, 32, 99, 111, 110, 115, 111, 108, 101, 46, 108, 111, 103, 40, 34, 97, 102, 116, 101, 114, 34, 41, 44, 32>>
SleepAfter == <<41, 59, 10, 32, 32, 60, 47, 115, 99, 114, 105, 112, 116, 62>>
OpenBefore == <<116, 46, 111, 112, 101, 110, 40, 34, 71, 69, 84, 34, 44, 32, 34>>
OpenAfter == <<34, 41, 59, 10, 32, 32, 32, 32, 116, 46, 115, 101, 110, 100, 40, 41, 59>>

(***************************************************************************)
(* C1: is_base64_encoded(v) is true exactly when v is non-empty, consists  *)
(* only of alphabet characters and '=', has a length that is a multiple of *)
(* 4 and has 0, 1 or 2 '=' only at its end.                                *)
(***************************************************************************)
C1_ValidatorIsStrict ==
    \A s \in Slots :
        (Answered(s, "/html") \/ Answered(s, "/redirect")) /\ inflight[s].given =>
            (is_base64_encoded(inflight[s].str)
                <=> (inflight[s].str # <<>> /\ StrictRules(inflight[s].str)))

(***************************************************************************)
(* C2: GET /decode answers 200 with {"original_b64": data, "decoded":      *)
(* text} when data obeys the strict rules and its bytes are UTF-8, and 400 *)
(* with {"detail": "Invalid Base64 data"} when data breaks the strict      *)
(* rules or its bytes are not UTF-8; data holding a character outside the  *)
(* alphabet is never answered with 200.                                    *)
(***************************************************************************)
C2_DecodeIsStrict ==
    \A s \in Slots :
        Answered(s, "/decode") =>
            LET data == inflight[s].str
                text == IF StrictRules(data) THEN utf8_decode(StrictBytes(data, 1))
                        ELSE [ok |-> FALSE, text |-> <<>>]
            IN  /\ text.ok =>
                     /\ response[s].status = 200
                     /\ response[s].json = <<[key |-> "original_b64", value |-> data],
                                             [key |-> "decoded", value |-> text.text]>>
                /\ ~text.ok =>
                     /\ response[s].status = 400
                     /\ response[s].json = <<[key |-> "detail", value |-> InvalidBase64Data]>>
                /\ (\E i \in 1..Len(data) : ~InAlphabet(data[i]) /\ data[i] # 61)
                     => response[s].status # 200

(***************************************************************************)
(* C3: round trip.  GET /encode never fails and echoes its data in         *)
(* "original"; its "encoded" value, sent as data to GET /decode, is        *)
(* answered 200 with "decoded" equal to the text that was encoded.         *)
(***************************************************************************)
C3_RoundTrip ==
    \A s \in Slots :
        /\ Answered(s, "/encode") =>
             /\ response[s].kind = "json"
             /\ response[s].status = 200
             /\ Len(response[s].json) = 2
             /\ response[s].json[1] = [key |-> "original", value |-> inflight[s].str]
             /\ response[s].json[2].key = "encoded"
        /\ Answered(s, "/decode") /\ origin[s].set =>
             /\ response[s].kind = "json"
             /\ response[s].status = 200
             /\ response[s].json = <<[key |-> "original_b64", value |-> inflight[s].str],
                                     [key |-> "decoded", value |-> origin[s].text]>>

\* the text "Q", U+00E9, "!" went through /encode and /decode
C3_Witness ==
    \E s \in Slots :
        /\ Answered(s, "/decode")
        /\ origin[s] = [set |-> TRUE, text |-> <<81, 233, 33>>]
        /\ response[s].status = 200

(***************************************************************************)
(* C4: /html and /redirect use the UTF-8 text decoded from their parameter *)
(* when is_base64_encoded accepts it and the parameter verbatim otherwise; *)
(* /html answers 200 with exactly the resolved content as body.            *)
(***************************************************************************)
C4_ResolutionRule ==
    \A s \in Slots :
        LET v == StrOf(s, default_redirect_url)
            decoded == utf8_decode(b64decode(utf8_encode(v), TRUE).bin)
        IN  /\ Answered(s, "/html") =>
                 /\ response[s].kind = "html"
                 /\ response[s].status = 200
                 /\ is_base64_encoded(v) =>
                        decoded.ok /\ response[s].body = utf8_encode(decoded.text)
                 /\ ~is_base64_encoded(v) => response[s].body = utf8_encode(v)
            /\ Answered(s, "/redirect") =>
                 /\ response[s].kind = "redirect"
                 /\ is_base64_encoded(v) =>
                        decoded.ok /\ response[s].location = quote(decoded.text)
                 /\ ~is_base64_encoded(v) => response[s].location = quote(v)

(***************************************************************************)
(* C5: every handler other than /decode is total: each of its answers is a *)
(* normal response (HTML 200, JSON 200 or a redirect), never an error.     *)
(***************************************************************************)
C5_HandlersTotal ==
    \A s \in Slots :
        response[s] # NoResponse /\ inflight[s].route # "/decode" =>
            \/ response[s].kind \in {"html", "json"} /\ response[s].status = 200
            \/ response[s].kind = "redirect"

(***************************************************************************)
(* C6: the value /sleep puts into the setTimeout delay is 10 when          *)
(* abs(sec) > 10 and sec otherwise, so it lies in -10..10; the delay reads *)
(* as the decimal numeral of that value followed by "000"; the answer is   *)
(* HTML with status 200.                                                   *)
(***************************************************************************)
C6_SleepClamp ==
    \A s \in Slots :
        Answered(s, "/sleep") =>
            LET sec == IF inflight[s].given THEN inflight[s].sec ELSE 10
                delay == Between(response[s].body, SleepBefore, SleepAfter)
                numeral == SubSeq(delay, 1, Len(delay) - 3)
            IN  /\ response[s].kind = "html"
                /\ response[s].status = 200
                /\ Len(delay) >= 4
                /\ SubSeq(delay, Len(delay) - 2, Len(delay)) = <<48, 48, 48>>
                /\ IsNumeral(numeral)
                /\ ParseInt(numeral) = (IF sec > 10 \/ sec < -10 THEN 10 ELSE sec)
                /\ ParseInt(numeral) \in -10..10

\* sec = -11 was clamped to 10
C6_Witness ==
    \E s \in Slots :
        /\ Answered(s, "/sleep")
        /\ inflight[s].given
        /\ inflight[s].sec = -11
        /\ Between(response[s].body, SleepBefore, SleepAfter) = <<49, 48, 48, 48, 48>>

(***************************************************************************)
(* C7 as stated: GET /redirect always answers with a redirect of status    *)
(* 302 whose Location is the resolved target.                              *)
(***************************************************************************)
C7_Redirect302 ==
    \A s \in Slots :
        Answered(s, "/redirect") =>
            /\ response[s].kind = "redirect"
            /\ response[s].status = 302

(***************************************************************************)
(* C7 as amended: GET /redirect never answers 302.  When url fails the     *)
(* validator, or passes it and decodes to UTF-8 text, the answer is a      *)
(* redirect of status 307 whose Location is the resolved target,           *)
(* percent-quoted; when url passes the validator and its bytes are not     *)
(* UTF-8 the answer is the 500 of the unhandled exception.                 *)
(***************************************************************************)
C7_Redirect307 ==
    \A s \in Slots :
        Answered(s, "/redirect") =>
            LET url == StrOf(s, default_redirect_url)
                decoded == utf8_decode(b64decode(utf8_encode(url), TRUE).bin)
                redirect(target) ==
                    /\ response[s].kind = "redirect"
                    /\ response[s].status = 307
                    /\ response[s].location = quote(target)
            IN  /\ response[s].status # 302
                /\ ~is_base64_encoded(url) => redirect(url)
                /\ is_base64_encoded(url) /\ decoded.ok => redirect(decoded.text)
                /\ is_base64_encoded(url) /\ ~decoded.ok =>
                       response[s].kind = "server_error" /\ response[s].status = 500

\* url = "QQ==" was answered with Location "A"
C7_Witness ==
    \E s \in Slots :
        /\ Answered(s, "/redirect")
        /\ inflight[s].given
        /\ inflight[s].str = <<81, 81, 61, 61>>
        /\ response[s].status = 307
        /\ response[s].location = <<65>>

(***************************************************************************)
(* C8 as stated: the string /document/write puts in place of {url} is the  *)
(* resolved URL: the decoded text when url passes the strict validator,    *)
(* url verbatim otherwise; the answer is HTML with status 200.             *)
(***************************************************************************)
C8_DocumentWriteResolved ==
    \A s \in Slots :
        Answered(s, "/document/write") =>
            LET url == StrOf(s, default_document_url)
                decoded == utf8_decode(b64decode(utf8_encode(url), TRUE).bin)
                written == Between(response[s].body, OpenBefore, OpenAfter)
            IN  /\ response[s].kind = "html"
                /\ response[s].status = 200
                /\ is_base64_encoded(url) /\ decoded.ok => written = utf8_encode(decoded.text)
                /\ ~is_base64_encoded(url) => written = utf8_encode(url)

(***************************************************************************)
(* C8 as amended: /document/write never validates or decodes url: the      *)
(* string put in place of {url} is url verbatim and unescaped for every    *)
(* url, also one that passes the strict validator (http://localhost when   *)
(* url is absent); the answer is HTML with status 200.                     *)
(***************************************************************************)
C8_DocumentWriteVerbatim ==
    \A s \in Slots :
        Answered(s, "/document/write") =>
            LET url == StrOf(s, default_document_url)
            IN  /\ response[s].kind = "html"
                /\ response[s].status = 200
                /\ Between(response[s].body, OpenBefore, OpenAfter) = utf8_encode(url)
                /\ Len(response[s].body)
                     = Len(utf8_encode(document_write_template)) - 7 + Len(utf8_encode(url))

\* url = "QQ==", which the validator accepts, was written as it is
C8_Witness ==
    \E s \in Slots :
        /\ Answered(s, "/document/write")
        /\ inflight[s].given
        /\ inflight[s].str = <<81, 81, 61, 61>>
        /\ is_base64_encoded(inflight[s].str)
        /\ Between(response[s].body, OpenBefore, OpenAfter) = <<81, 81, 61, 61>>

(***************************************************************************)
(* C9: empty input is handled without error: GET /decode with data = ""    *)
(* answers 200 with original_b64 = "" and decoded = "", GET /html with     *)
(* content = "" answers 200 with an empty body, and is_base64_encoded("")  *)
(* is false.                                                               *)
(***************************************************************************)
C9_EmptyInput ==
    /\ ~is_base64_encoded(<<>>)
    /\ \A s \in Slots :
        /\ Answered(s, "/decode") /\ inflight[s].str = <<>> =>
             /\ response[s].kind = "json"
             /\ response[s].status = 200
             /\ response[s].json = <<[key |-> "original_b64", value |-> <<>>],
                                     [key |-> "decoded", value |-> <<>>]>>
        /\ Answered(s, "/html") /\ inflight[s].str = <<>> =>
             /\ response[s].kind = "html"
             /\ response[s].status = 200
             /\ response[s].body = <<>>

\* both empty requests have been answered
C9_Witness ==
    \E s, t \in Slots :
        /\ Answered(s, "/decode") /\ inflight[s].str = <<>> /\ ~origin[s].set
        /\ Answered(t, "/html") /\ inflight[t].str = <<>>

(***************************************************************************)
(* C10: with any number of requests in flight, handled in any order, each  *)
(* request is answered exactly once and with the answer the same request   *)
(* (route and query parameters) gets when it is handled alone.             *)
(***************************************************************************)
\* the answer to a request that is handled alone
AloneResponse(req) ==
    LET str(default) == IF req.given THEN req.str ELSE default
    IN  CASE req.route = "/" -> root
          [] req.route = "/log" -> log
          [] req.route = "/redirect" -> redirector(str(default_redirect_url))
          [] req.route = "/sleep" -> sleep(IF req.given THEN req.sec ELSE 10)
          [] req.route = "/html" -> html_renderer(str(<<>>))
          [] req.route = "/encode" -> encode_data(str(<<>>))
          [] req.route = "/decode" -> decode_data(str(<<>>))
          [] req.route = "/document/write" -> document_write(str(default_document_url))

C10_Stateless ==
    \A s \in Slots :
        /\ sent[s] <= 1
        /\ response[s] = NoResponse => sent[s] = 0
        /\ response[s] # NoResponse =>
             /\ inflight[s] # NoRequest
             /\ sent[s] = 1
             /\ response[s] = AloneResponse(inflight[s])

\* two different requests in flight at once, both answered
C10_Witness ==
    \E s, t \in Slots :
        /\ s < t
        /\ Answered(s, "/decode") /\ inflight[s].str = <<81, 33, 81, 61, 61>>
        /\ Answered(t, "/html") /\ inflight[t].str = <<81, 81, 61, 61>>

====
